---- MODULE Spec2Model ----
(***************************************************************************)
(* A model of src/main.c: a one-table row store over a page cache.         *)
(*                                                                         *)
(* Two granularities are used.                                             *)
(*  - The store (Spec) keeps memory and the file in "units": one unit is   *)
(*    either one ROW_SIZE-byte row slot of a page or the PAGE_SIZE %       *)
(*    ROW_SIZE padding bytes that follow the last slot of a page.  Every   *)
(*    read, write and memcpy of the program starts and ends on a unit      *)
(*    boundary (FileUnitAligned below is checked), so nothing is lost.     *)
(*    All lengths and offsets are still computed in bytes, as in the code. *)
(*  - The row codec (SpecCodec) and the address arithmetic (SpecAddr) are  *)
(*    checked byte by byte.                                                *)
(*                                                                         *)
(* The field widths are those of the source.  PAGE_SIZE (4096 in the       *)
(* source) and the page table size TABLE_MAX_PAGES (100 in the source) are *)
(* bounded so that pages and the table can be filled; PAGE_SIZE keeps the  *)
(* source's remainder, PAGE_SIZE % ROW_SIZE = 287 = 4096 % 293.            *)
(*                                                                         *)
(* The text layer of main (InputBuffer, getline, strtok) is present as the *)
(* commands it hands to the store; its own memory is not modelled.         *)
(***************************************************************************)
EXTENDS Integers, Sequences, FiniteSets, TLC

\* ------------------------------------------------------------- constants
COLUMN_USERNAME_SIZE == 32
COLUMN_EMAIL_SIZE == 255
\* sizeof(uint32_t)
ID_SIZE == 4
\* sizeof(char[COLUMN_USERNAME_SIZE + 1])
USERNAME_SIZE == COLUMN_USERNAME_SIZE + 1
\* sizeof(char[COLUMN_EMAIL_SIZE + 1])
EMAIL_SIZE == COLUMN_EMAIL_SIZE + 1
ID_OFFSET == 0
USERNAME_OFFSET == ID_OFFSET + ID_SIZE
EMAIL_OFFSET == USERNAME_OFFSET + USERNAME_SIZE
ROW_SIZE == ID_SIZE + USERNAME_SIZE + EMAIL_SIZE
\* 4096 in the source, bounded here: three rows and 287 bytes of padding.
PAGE_SIZE == 1166
ROWS_PER_PAGE == PAGE_SIZE \div ROW_SIZE

\* The size of Pager.pages: 100 in the source, bounded here.
TABLE_MAX_PAGES == 2
TABLE_MAX_ROWS == ROWS_PER_PAGE * TABLE_MAX_PAGES

\* The number of times the program is run on the same file.
MaxSessions == 2

Min(a, b) == IF a < b THEN a ELSE b
Max(a, b) == IF a < b THEN b ELSE a

\* ------------------------------------------------------------- units
\* A unit is a row slot (a function from the three field offsets to the
\* image of that field) or a page's padding (an image).  Images of bytes
\* nobody wrote: all zero, or whatever malloc left there.
Fill == {"zero", "junk"}
FieldOffsets == {ID_OFFSET, USERNAME_OFFSET, EMAIL_OFFSET}
JunkId == 0 - 1
JunkStr == <<-1>>
FillCell(fill) ==
    [o \in FieldOffsets |->
        IF o = ID_OFFSET THEN (IF fill = "zero" THEN 0 ELSE JunkId)
        ELSE (IF fill = "zero" THEN <<>> ELSE JunkStr)]
UnitsPerPage == ROWS_PER_PAGE + 1
\* The units wholly inside the first n bytes of a page.
UnitsIn(n) == IF n >= PAGE_SIZE THEN UnitsPerPage ELSE n \div ROW_SIZE
\* The bytes of the first k units of the file.
BytesOf(k) == (k \div UnitsPerPage) * PAGE_SIZE + (k % UnitsPerPage) * ROW_SIZE

\* malloc(PAGE_SIZE): the contents are indeterminate.
Malloc(fill) ==
    [u \in 1..UnitsPerPage |-> IF u <= ROWS_PER_PAGE THEN FillCell(fill) ELSE fill]

\* ------------------------------------------------------------- the file
\* The file is the sequence of its units; its length in bytes is
\* BytesOf(Len(f)).
FileLen(f) == BytesOf(Len(f))

\* lseek(fd, offset, SEEK_SET); read(fd, page, PAGE_SIZE): the bytes of the
\* file from offset on, at most PAGE_SIZE of them, replace the start of buf.
ReadFile(f, offset, buf) ==
    LET bytesRead == Min(PAGE_SIZE, Max(0, FileLen(f) - offset))
        first == (offset \div PAGE_SIZE) * UnitsPerPage
    IN  [u \in 1..UnitsPerPage |->
            IF u <= UnitsIn(bytesRead) THEN f[first + u] ELSE buf[u]]

\* The unit a hole of the file reads as: a write past the end of the file
\* leaves zero bytes between the old end and the written range.
HoleUnit(k) == IF k % UnitsPerPage = 0 THEN "zero" ELSE FillCell("zero")

\* lseek(fd, offset, SEEK_SET); write(fd, buf, size)
WriteFile(f, offset, buf, size) ==
    LET first == (offset \div PAGE_SIZE) * UnitsPerPage
        n == UnitsIn(size)
        newLen == Max(Len(f), first + n)
    IN  [k \in 1..newLen |->
            IF k > first /\ k <= first + n THEN buf[k - first]
            ELSE IF k <= Len(f) THEN f[k]
            ELSE HoleUnit(k)]

\* ------------------------------------------------------------- the pager
\* Pager.pages has TABLE_MAX_PAGES slots.  The slots from TABLE_MAX_PAGES on
\* are the words that follow the array in memory: openPager does not set
\* them, and what they hold is decided when the program first reads them.
\* The model holds as many of these words as the program can index: the
\* row count of a session is at most MaxRowsIn, because a file closed with
\* n rows is at most BytesOf-long for the units of n rows.
Extent(n) == (n \div ROWS_PER_PAGE) * PAGE_SIZE + (n % ROWS_PER_PAGE) * ROW_SIZE
RECURSIVE MaxRowsIn(_)
MaxRowsIn(k) ==
    IF k <= 1 THEN TABLE_MAX_ROWS
    ELSE Max(TABLE_MAX_ROWS, Extent(MaxRowsIn(k - 1)) \div ROW_SIZE)
LastSlot == Max(TABLE_MAX_PAGES, MaxRowsIn(MaxSessions) \div ROWS_PER_PAGE)
Slots == 0..LastSlot
NullSlot == [st |-> "null", buf |-> <<>>]
IndetSlot == [st |-> "indet", buf |-> <<>>]
\* A non-null word that is no page of the pager: reading through it gives
\* arbitrary bytes, or faults.
WildSlot == [st |-> "wild", buf |-> Malloc("junk")]
PageSlot(page) == [st |-> "page", buf |-> page]

\* openPager: the slots of the array are NULL.
openPager ==
    [i \in Slots |-> IF i < TABLE_MAX_PAGES THEN NullSlot ELSE IndetSlot]

\* The choices the program does not make itself:
\*   fill[p]  what malloc left in the page allocated for slot p
\*   oob[i]   what the word at slot i >= TABLE_MAX_PAGES holds when first read
\*   fault    whether access through a wild pointer faults
\*   abort    whether free() of a wild pointer aborts the process
Envs == [fill : [Slots -> Fill],
         oob : [TABLE_MAX_PAGES..LastSlot -> {"null", "wild"}],
         fault : BOOLEAN,
         abort : BOOLEAN]

\* pager->pages[i], read
SlotRead(pgs, i, env) ==
    IF pgs[i].st = "indet"
    THEN (IF env.oob[i] = "null" THEN NullSlot ELSE WildSlot)
    ELSE pgs[i]

\* The bound check of getPage.
PageOutOfBounds(pageNum) == pageNum > TABLE_MAX_PAGES

\* A getPage that keeps no cache: every call allocates and loads anew.
getPageNoCache(pgs, flen, f, pageNum, env) ==
    IF PageOutOfBounds(pageNum)
    THEN [status |-> "fatal", pages |-> pgs, slot |-> NullSlot, hi |-> 0 - 1]
    ELSE LET page == Malloc(env.fill[pageNum])
             numPages == (flen \div PAGE_SIZE)
                         + (IF flen % PAGE_SIZE # 0 THEN 1 ELSE 0)
             loaded == IF pageNum <= numPages
                       THEN ReadFile(f, pageNum * PAGE_SIZE, page)
                       ELSE page
         IN  [status |-> "ok",
              pages |-> [pgs EXCEPT ![pageNum] = PageSlot(loaded)],
              slot |-> PageSlot(loaded),
              hi |-> pageNum]

\* getPage(pager, pageNum).  status "fatal" is exit(EXIT_FAILURE); hi is the
\* highest slot of pager->pages that was read or written (-1: none).
getPage(pgs, flen, f, pageNum, env) ==
    IF PageOutOfBounds(pageNum)
    THEN [status |-> "fatal", pages |-> pgs, slot |-> NullSlot, hi |-> 0 - 1]
    ELSE LET seen == SlotRead(pgs, pageNum, env) IN
         IF seen.st = "null"
         THEN \* Cache miss. Allocate memory and load from file.
              LET page == Malloc(env.fill[pageNum])
                  numPages == (flen \div PAGE_SIZE)
                              + (IF flen % PAGE_SIZE # 0 THEN 1 ELSE 0)
                  loaded == IF pageNum <= numPages
                            THEN ReadFile(f, pageNum * PAGE_SIZE, page)
                            ELSE page
              IN  [status |-> "ok",
                   pages |-> [pgs EXCEPT ![pageNum] = PageSlot(loaded)],
                   slot |-> PageSlot(loaded),
                   hi |-> pageNum]
         ELSE [status |-> "ok",
               pages |-> [pgs EXCEPT ![pageNum] = seen],
               slot |-> seen,
               hi |-> pageNum]

\* What flushPager prints before it exits.
NoMessage == ""
FlushNullPage == "Tried to flush null page"
ErrorWriting == "Error writing"

\* A flushPager that writes the whole page whatever size says.
flushPagerWholePage(slot, f, pageNum, size, env) ==
    IF slot.st = "null" \/ (slot.st = "wild" /\ env.fault)
    THEN [status |-> "fatal", file |-> f, wrote |-> <<>>,
          msg |-> IF slot.st = "null" THEN FlushNullPage ELSE ErrorWriting]
    ELSE [status |-> "ok",
          file |-> WriteFile(f, pageNum * PAGE_SIZE, slot.buf, PAGE_SIZE),
          wrote |-> <<[offset |-> pageNum * PAGE_SIZE, size |-> PAGE_SIZE]>>,
          msg |-> NoMessage]

\* flushPager(pager, pageNum, size), slot being what pager->pages[pageNum]
\* reads as.  write() from a wild pointer fails with EFAULT ("Error
\* writing", exit) or writes what is there.  wrote is the write() done, as
\* [offset, size]; msg is what is printed before exit(EXIT_FAILURE).
flushPager(slot, f, pageNum, size, env) ==
    IF slot.st = "null"
    THEN [status |-> "fatal", file |-> f, wrote |-> <<>>, msg |-> FlushNullPage]
    ELSE IF slot.st = "wild" /\ env.fault
    THEN [status |-> "fatal", file |-> f, wrote |-> <<>>, msg |-> ErrorWriting]
    ELSE [status |-> "ok",
          file |-> WriteFile(f, pageNum * PAGE_SIZE, slot.buf, size),
          wrote |-> <<[offset |-> pageNum * PAGE_SIZE, size |-> size]>>,
          msg |-> NoMessage]

\* ------------------------------------------------------------- rows
\* serializeRow(source, dest) on a slot: three memcpy, each field to its
\* offset in the slot.
serializeRow(source, cell) ==
    [o \in FieldOffsets |->
        IF o = ID_OFFSET THEN source.id
        ELSE IF o = USERNAME_OFFSET THEN source.username
        ELSE IF o = EMAIL_OFFSET THEN source.email
        ELSE cell[o]]

\* A deserializeRow that takes the two strings from each other's offset.
deserializeRowSwapped(cell) ==
    [id |-> cell[ID_OFFSET],
     username |-> cell[EMAIL_OFFSET],
     email |-> cell[USERNAME_OFFSET]]

\* deserializeRow(source, dest): each field from its offset in the slot.
deserializeRow(cell) ==
    [id |-> cell[ID_OFFSET],
     username |-> cell[USERNAME_OFFSET],
     email |-> cell[EMAIL_OFFSET]]

\* A page number rounded up instead of down.
RowPageNumRoundedUp(rowNum) == (rowNum + ROWS_PER_PAGE - 1) \div ROWS_PER_PAGE
\* A byte offset taken from the quotient instead of the remainder.
RowByteOffsetOfQuotient(rowNum) == (rowNum \div ROWS_PER_PAGE) * ROW_SIZE

\* The address arithmetic of rowSlot.
RowPageNum(rowNum) == rowNum \div ROWS_PER_PAGE
RowByteOffset(rowNum) == (rowNum % ROWS_PER_PAGE) * ROW_SIZE
\* The address of row rowNum, as rowSlot computes it.
AddrOf(rowNum) ==
    [i |-> rowNum, page |-> RowPageNum(rowNum), offset |-> RowByteOffset(rowNum)]
\* A slot one row further than the offset says.
UnitAtNext(byteOffset) == byteOffset \div ROW_SIZE + 2
\* The unit of a page buffer that starts at byteOffset.
UnitAt(byteOffset) == byteOffset \div ROW_SIZE + 1

\* rowSlot(table, rowNum): getPage, then page + byteOffset.
rowSlot(pgs, flen, f, rowNum, env) ==
    LET g == getPage(pgs, flen, f, RowPageNum(rowNum), env)
    IN  [status |-> g.status, pages |-> g.pages, slot |-> g.slot, hi |-> g.hi,
         pageNum |-> RowPageNum(rowNum), byteOffset |-> RowByteOffset(rowNum)]

\* A capacity test that lets one row too many in.
TableFullOffByOne(n) == n > TABLE_MAX_ROWS

\* The capacity test of executeInsertStatement.
TableFull(n) == n >= TABLE_MAX_ROWS

\* executeInsertStatement(statement, table)
executeInsertStatement(row, n, pgs, flen, f, env) ==
    IF TableFull(n)
    THEN [result |-> "TableFull", numRows |-> n, pages |-> pgs, hi |-> 0 - 1]
    ELSE LET s == rowSlot(pgs, flen, f, n, env) IN
         IF s.status # "ok"
         THEN [result |-> s.status, numRows |-> n, pages |-> s.pages, hi |-> s.hi]
         ELSE IF s.slot.st = "wild" /\ env.fault
         THEN [result |-> "crash", numRows |-> n, pages |-> s.pages, hi |-> s.hi]
         ELSE LET u == UnitAt(s.byteOffset)
                  buf == [s.slot.buf EXCEPT ![u] = serializeRow(row, @)]
              IN  [result |-> "Executed",
                   numRows |-> n + 1,
                   pages |-> [s.pages EXCEPT ![s.pageNum].buf = buf],
                   hi |-> s.hi]

\* executeSelectStatement(statement, table): the loop from row i on; out is
\* what printRow has printed so far.
RECURSIVE SelectFrom(_, _, _, _, _, _, _, _)
SelectFrom(i, n, pgs, flen, f, out, hi, env) ==
    IF i >= n
    THEN [result |-> "Executed", pages |-> pgs, out |-> out, hi |-> hi]
    ELSE LET s == rowSlot(pgs, flen, f, i, env) IN
         IF s.status # "ok"
         THEN [result |-> s.status, pages |-> s.pages, out |-> out,
               hi |-> Max(hi, s.hi)]
         ELSE IF s.slot.st = "wild" /\ env.fault
         THEN [result |-> "crash", pages |-> s.pages, out |-> out,
               hi |-> Max(hi, s.hi)]
         ELSE SelectFrom(i + 1, n, s.pages, flen, f,
                         Append(out, deserializeRow(s.slot.buf[UnitAt(s.byteOffset)])),
                         Max(hi, s.hi), env)

executeSelectStatement(n, pgs, flen, f, env) ==
    SelectFrom(0, n, pgs, flen, f, <<>>, 0 - 1, env)

\* ------------------------------------------------------------- close
\* free(pager->pages[i]); pager->pages[i] = NULL
Release(pgs, i) == [pgs EXCEPT ![i] = NullSlot]

\* A first loop that flushes every page below numFullPages without testing
\* its slot.
RECURSIVE FlushFullFromUntested(_, _, _, _, _, _)
FlushFullFromUntested(i, numFullPages, pgs, f, hi, env) ==
    IF i >= numFullPages
    THEN [status |-> "ok", pages |-> pgs, file |-> f, hi |-> hi,
          log |-> <<>>, msg |-> NoMessage]
    ELSE LET seen == SlotRead(pgs, i, env)
             kept == [pgs EXCEPT ![i] = seen]
             w == flushPager(seen, f, i, PAGE_SIZE, env)
         IN  IF w.status # "ok"
             THEN [status |-> w.status, pages |-> kept, file |-> w.file,
                   hi |-> Max(hi, i), log |-> w.wrote, msg |-> w.msg]
             ELSE LET rest == FlushFullFromUntested(i + 1, numFullPages,
                                                    Release(kept, i), w.file,
                                                    Max(hi, i), env)
                  IN  [rest EXCEPT !.log = w.wrote \o @]

\* The first loop of closeDatabase, from page i on: every resident page
\* below numFullPages is flushed whole and released.
RECURSIVE FlushFullFrom(_, _, _, _, _, _)
FlushFullFrom(i, numFullPages, pgs, f, hi, env) ==
    IF i >= numFullPages
    THEN [status |-> "ok", pages |-> pgs, file |-> f, hi |-> hi,
          log |-> <<>>, msg |-> NoMessage]
    ELSE LET seen == SlotRead(pgs, i, env)
             kept == [pgs EXCEPT ![i] = seen]
         IN  IF seen.st = "null"
             THEN FlushFullFrom(i + 1, numFullPages, kept, f, Max(hi, i), env)
             ELSE LET w == flushPager(seen, f, i, PAGE_SIZE, env) IN
                  IF w.status # "ok"
                  THEN [status |-> w.status, pages |-> kept, file |-> w.file,
                        hi |-> Max(hi, i), log |-> w.wrote, msg |-> w.msg]
                  ELSE IF seen.st = "wild" /\ env.abort
                  THEN [status |-> "crash", pages |-> kept, file |-> w.file,
                        hi |-> Max(hi, i), log |-> w.wrote, msg |-> NoMessage]
                  ELSE LET rest == FlushFullFrom(i + 1, numFullPages,
                                                 Release(kept, i), w.file,
                                                 Max(hi, i), env)
                       IN  [rest EXCEPT !.log = w.wrote \o @]

\* The partial page of closeDatabase.
FlushPartial(n, pgs, f, hi, env) ==
    LET numAdditionalRows == n % ROWS_PER_PAGE
        pageNum == n \div ROWS_PER_PAGE
    IN  IF numAdditionalRows > 0
        THEN LET seen == SlotRead(pgs, pageNum, env)
                 kept == [pgs EXCEPT ![pageNum] = seen]
             IN  IF seen.st # "null"
                 THEN LET w == flushPager(seen, f, pageNum,
                                          numAdditionalRows * ROW_SIZE, env)
                      IN  IF w.status # "ok"
                          THEN [status |-> w.status, pages |-> kept,
                                file |-> w.file, hi |-> Max(hi, pageNum),
                                log |-> w.wrote, msg |-> w.msg]
                          ELSE IF seen.st = "wild" /\ env.abort
                          THEN [status |-> "crash", pages |-> kept,
                                file |-> w.file, hi |-> Max(hi, pageNum),
                                log |-> w.wrote, msg |-> NoMessage]
                          ELSE [status |-> "ok", pages |-> Release(kept, pageNum),
                                file |-> w.file, hi |-> Max(hi, pageNum),
                                log |-> w.wrote, msg |-> NoMessage]
                 ELSE [status |-> "ok", pages |-> kept, file |-> f,
                       hi |-> Max(hi, pageNum), log |-> <<>>, msg |-> NoMessage]
        ELSE [status |-> "ok", pages |-> pgs, file |-> f, hi |-> hi,
              log |-> <<>>, msg |-> NoMessage]

\* The last loop of closeDatabase: every slot of the array is released.
ReleaseAll(pgs) ==
    [i \in Slots |-> IF i < TABLE_MAX_PAGES THEN NullSlot ELSE pgs[i]]

\* closeDatabase(table).  log is the write() calls made, in order, and msg
\* what flushPager printed if it ended the process.
closeDatabase(n, pgs, f, env) ==
    LET full == FlushFullFrom(0, n \div ROWS_PER_PAGE, pgs, f, 0 - 1, env) IN
    IF full.status # "ok"
    THEN full
    ELSE LET part == FlushPartial(n, full.pages, full.file, full.hi, env)
             both == [part EXCEPT !.log = full.log \o @]
         IN  IF part.status # "ok"
             THEN both
             ELSE [both EXCEPT !.pages = ReleaseAll(part.pages)]

\* openDatabase(fn): the row count is taken from the length of the file.
RowsOfFile(len) == len \div ROW_SIZE

\* ------------------------------------------------------------- the codec, in bytes
\* The longest input string tried, besides the two of full length.
MaxStrLen == 2
\* The bytes kept on each side of the destination, to see what is written
\* outside it.
Margin == 2

\* The object representation of a uint32_t (little endian, as on the
\* machines the program is built for).  struct Row is kept in bytes: its
\* id field is these four bytes.
U32Bytes(n) ==
    <<n % 256, (n \div 256) % 256, (n \div 65536) % 256, (n \div 16777216) % 256>>

\* The n bytes of mem after the first from.
Slice(mem, from, n) == [k \in 1..n |-> mem[from + k]]
\* memcpy(mem + dest, bytes, n)
memcpy(mem, dest, bytes, n) ==
    [k \in 1..Len(mem) |-> IF k > dest /\ k <= dest + n THEN bytes[k - dest] ELSE mem[k]]
\* strcpy(arr, str): the characters and the terminator; the rest of arr stays.
strcpy(arr, str) ==
    [k \in 1..Len(arr) |->
        IF k <= Len(str) THEN str[k] ELSE IF k = Len(str) + 1 THEN 0 ELSE arr[k]]

\* A serializeRow that leaves out the last byte of the username field.
serializeRowBytesShort(source, mem, dest) ==
    LET a == memcpy(mem, dest + ID_OFFSET, source.id, ID_SIZE)
        b == memcpy(a, dest + USERNAME_OFFSET, source.username, COLUMN_USERNAME_SIZE)
    IN  memcpy(b, dest + EMAIL_OFFSET, source.email, EMAIL_SIZE)

\* serializeRow(source, dest), dest being mem + dest.
serializeRowBytes(source, mem, dest) ==
    LET a == memcpy(mem, dest + ID_OFFSET, source.id, ID_SIZE)
        b == memcpy(a, dest + USERNAME_OFFSET, source.username, USERNAME_SIZE)
    IN  memcpy(b, dest + EMAIL_OFFSET, source.email, EMAIL_SIZE)

\* deserializeRow(source, dest), source being mem + source.
deserializeRowBytes(mem, source) ==
    [id |-> Slice(mem, source + ID_OFFSET, ID_SIZE),
     username |-> Slice(mem, source + USERNAME_OFFSET, USERNAME_SIZE),
     email |-> Slice(mem, source + EMAIL_OFFSET, EMAIL_SIZE)]

\* struct Row with every byte equal to b.
RowOfBytes(b) ==
    [id |-> [k \in 1..ID_SIZE |-> b],
     username |-> [k \in 1..USERNAME_SIZE |-> b],
     email |-> [k \in 1..EMAIL_SIZE |-> b]]

\* The end of prepareInsertStatement: the id and the two strings are put
\* into statement->rowToInsert, whose bytes were stale before.
RowOfInput(id, username, email, stale) ==
    [id |-> U32Bytes(id),
     username |-> strcpy(RowOfBytes(stale).username, username),
     email |-> strcpy(RowOfBytes(stale).email, email)]

\* The inputs: ids over the range of a non-negative int, strings of one to
\* MaxStrLen characters and the strings of full length.
CodecIds == {0, 1, 256, 65535, 2147483647}
Chars == {97, 98}
ShortStrs == UNION {[1..n -> Chars] : n \in 1..MaxStrLen}
FullStr(n) == [k \in 1..n |-> 97 + (k % 2)]
Usernames == ShortStrs \cup {FullStr(COLUMN_USERNAME_SIZE)}
Emails == {<<101>>, <<101, 64, 120>>, FullStr(COLUMN_EMAIL_SIZE)}

CodecIdle == [step |-> "idle", src |-> RowOfBytes(0), bg |-> 0, mem |-> <<>>,
              dst |-> RowOfBytes(0)]


\* ------------------------------------------------------------- the input
\* A line of input and its tokens are the characters of a C string, without
\* the terminator.
DotExit == <<46, 101, 120, 105, 116>>            \* ".exit"
KwInsert == <<105, 110, 115, 101, 114, 116>>     \* "insert"
KwSelect == <<115, 101, 108, 101, 99, 116>>      \* "select"

\* strcmp(a, b) == 0 and strncmp(a, b, n) == 0
Take(str, n) == SubSeq(str, 1, Min(n, Len(str)))
strcmp(a, b) == a = b
strncmp(a, b, n) == Take(a, n) = Take(b, n)

\* The tokens strtok(buffer, " ") and the calls strtok(NULL, " ") after it
\* give, in order: the runs of characters other than the delimiter.
TokenStarts(buffer) ==
    {k \in 1..Len(buffer) : buffer[k] # 32 /\ (k = 1 \/ buffer[k - 1] = 32)}
TokenEnds(buffer) ==
    {k \in 1..Len(buffer) :
        buffer[k] # 32 /\ (k = Len(buffer) \/ buffer[k + 1] = 32)}
Nth(S, n) == CHOOSE t \in S : Cardinality({u \in S : u < t}) = n - 1
strtok(buffer) ==
    LET starts == TokenStarts(buffer)
        ends == TokenEnds(buffer)
    IN  [n \in 1..Cardinality(starts) |->
            SubSeq(buffer, Nth(starts, n), Nth(ends, n))]
\* The n-th of them; strtok returns NULL when there is none.
NullToken == [null |-> TRUE, str |-> <<>>]
Token(tokens, n) ==
    IF n <= Len(tokens) THEN [null |-> FALSE, str |-> tokens[n]] ELSE NullToken

\* atoi(nptr): white space, a sign, then digits up to the first character
\* that is none.  A value that an int cannot hold is undefined behaviour:
\* the result is then wrapped, one of the values AtoiWrapped (glibc returns
\* the low 32 bits of strtol's result).
isspace(c) == c = 32 \/ (c >= 9 /\ c <= 13)
isdigit(c) == c >= 48 /\ c <= 57
RECURSIVE SkipSpace(_, _)
SkipSpace(nptr, k) ==
    IF k <= Len(nptr) /\ isspace(nptr[k]) THEN SkipSpace(nptr, k + 1) ELSE k
RECURSIVE DigitsFrom(_, _)
DigitsFrom(nptr, k) ==
    IF k > Len(nptr) \/ ~isdigit(nptr[k]) THEN <<>>
    ELSE <<nptr[k] - 48>> \o DigitsFrom(nptr, k + 1)
RECURSIVE Significant(_)
Significant(digits) ==
    IF digits # <<>> /\ Head(digits) = 0 THEN Significant(Tail(digits)) ELSE digits
RECURSIVE DecimalValue(_)
DecimalValue(digits) ==
    IF digits = <<>> THEN 0
    ELSE DecimalValue(SubSeq(digits, 1, Len(digits) - 1)) * 10 + digits[Len(digits)]
AtoiWrapped == {2147483647, 0 - 1}
atoi(nptr, wrapped) ==
    LET start == SkipSpace(nptr, 1)
        signed == start <= Len(nptr) /\ nptr[start] \in {43, 45}
        negative == start <= Len(nptr) /\ nptr[start] = 45
        digits == Significant(DigitsFrom(nptr, IF signed THEN start + 1 ELSE start))
        head == DecimalValue(Take(digits, 9))
        fits == \/ Len(digits) <= 9
                \/ /\ Len(digits) = 10
                   /\ \/ head < 214748364
                      \/ head = 214748364 /\ digits[10] <= (IF negative THEN 8 ELSE 7)
    IN  IF ~fits THEN wrapped
        ELSE IF Len(digits) <= 9 THEN (IF negative THEN 0 - head ELSE head)
        ELSE IF negative THEN (0 - head) * 10 - digits[10]
        ELSE head * 10 + digits[10]

\* main's Statement is not initialised.
StatementIndet ==
    [type |-> "indet",
     rowToInsert |-> [id |-> JunkId, username |-> JunkStr, email |-> JunkStr]]

\* prepareInsertStatement(input_buffer, statement)
prepareInsertStatement(buffer, stmt, wrapped) ==
    LET tokens == strtok(buffer)
        id_string == Token(tokens, 2)
        username == Token(tokens, 3)
        email == Token(tokens, 4)
    IN  IF id_string.null \/ username.null \/ email.null
        THEN [result |-> "PREPARE_SYNTAX_ERROR", statement |-> stmt]
        ELSE LET id == atoi(id_string.str, wrapped) IN
             IF id < 0
             THEN [result |-> "PREPARE_NEGATIVE_ID", statement |-> stmt]
             ELSE IF Len(username.str) > COLUMN_USERNAME_SIZE
             THEN [result |-> "PREPARE_STRING_TOO_LONG", statement |-> stmt]
             ELSE IF Len(email.str) > COLUMN_EMAIL_SIZE
             THEN [result |-> "PREPARE_STRING_TOO_LONG", statement |-> stmt]
             ELSE [result |-> "PREPARE_SUCCESS",
                   statement |-> [stmt EXCEPT !.rowToInsert =
                                    [id |-> id,
                                     username |-> username.str,
                                     email |-> email.str]]]

\* prepareStatement(inputBuffer, statement)
prepareStatement(buffer, stmt, wrapped) ==
    IF strncmp(buffer, KwInsert, 6)
    THEN prepareInsertStatement(buffer, [stmt EXCEPT !.type = "STATEMENT_INSERT"],
                                wrapped)
    ELSE IF strcmp(buffer, KwSelect)
    THEN [result |-> "PREPARE_SUCCESS",
          statement |-> [stmt EXCEPT !.type = "STATEMENT_SELECT"]]
    ELSE [result |-> "PREPARE_UNRECOGNIZED_STATEMENT", statement |-> stmt]

\* doMetaCommand(inputBuffer, table), but for what .exit does.
doMetaCommand(buffer) ==
    IF strcmp(buffer, DotExit) THEN "exit" ELSE "META_COMMAND_UNRECOGNIZED_COMMAND"

\* The body of main's loop up to executeStatement: how the line is taken.
IsMeta(buffer) == buffer # <<>> /\ buffer[1] = 46
Dispatch(buffer, stmt, wrapped) ==
    IF IsMeta(buffer)
    THEN [result |-> doMetaCommand(buffer), statement |-> stmt]
    ELSE prepareStatement(buffer, stmt, wrapped)

\* ------------------------------------------------------------- the program
VARIABLES
    pc,          \* "running", or how the process ended: "exited" (.exit),
                 \* "aborted" (exit(EXIT_FAILURE)), "crashed" (a fault)
    numRows,     \* table->numRows
    fLen,        \* pager->fLen: the length of the file when it was opened
    pages,       \* pager->pages, and the words behind it
    file,        \* the database file
    session,     \* how many times the program was started on the file
    cmd,         \* the last line of input that was handled
    result,      \* how it ended
    out,         \* the rows it printed
    inserted,    \* the rows inserted in this session: [at, row]
    disk,        \* the rows inserted in the sessions that .exit ended
    fileAtOpen,  \* the file as this session found it
    hi,          \* the highest slot of pager->pages used in this session
    prev,        \* the session before: how it ended, the length it found
    writes,      \* the write() calls of this session's .exit: [offset, size]
    msg,         \* what flushPager printed when it ended the process
    codec,       \* the row codec on its own: [step, src, bg, mem, dst]
    addr,        \* the address arithmetic on its own: [i, page, offset]
    line,        \* the input loop on its own: inputBuffer->buffer, as read
    statement    \* the input loop on its own: main's Statement

storeVars == <<pc, numRows, fLen, pages, file, session, cmd, result, out,
               inserted, disk, fileAtOpen, hi, prev, writes, msg>>
pureVars == <<codec, addr, line, statement>>
vars == <<storeVars, pureVars>>

\* The row typed in for row index at of a session (ids from 1, as in the
\* spec's scenario; the strings differ from session to session).
RowFor(s, at) == [id |-> at + 1, username |-> <<117, s>>, email |-> <<101, s, at>>]

\* The choices that matter to an operation that may allocate the pages in
\* need and that touches the slots in touched; the others are held fixed.
EnvsFor(need, touched) ==
    LET oobs == {i \in touched : i >= TABLE_MAX_PAGES /\ pages[i].st = "indet"}
        wild == {i \in touched : i >= TABLE_MAX_PAGES}
    IN  { [fill |-> [p \in Slots |-> IF p \in need THEN c[p] ELSE "zero"],
           oob |-> [i \in TABLE_MAX_PAGES..LastSlot |->
                       IF i \in oobs THEN o[i] ELSE "null"],
           fault |-> b,
           abort |-> a] :
          c \in [need -> Fill], o \in [oobs -> {"null", "wild"}],
          b \in (IF wild = {} THEN {FALSE} ELSE BOOLEAN),
          a \in (IF wild = {} THEN {FALSE} ELSE BOOLEAN) }

\* The pages whose allocation leaves bytes of malloc in the buffer: those
\* not resident that the file does not cover whole.
ShortPages(P) ==
    {p \in P : pages[p].st \in {"null", "indet"} /\ FileLen(file) < (p + 1) * PAGE_SIZE}

Ended(status) ==
    IF status = "fatal" THEN "aborted" ELSE IF status = "crash" THEN "crashed"
    ELSE "running"

\* main, after openDatabase on a file that did not exist.
StoreInit ==
    /\ pc = "running"
    /\ numRows = 0
    /\ fLen = 0
    /\ pages = openPager
    /\ file = <<>>
    /\ session = 1
    /\ cmd = "open"
    /\ result = "ok"
    /\ out = <<>>
    /\ inserted = <<>>
    /\ disk = {}
    /\ fileAtOpen = <<>>
    /\ hi = 0 - 1
    /\ prev = [clean |-> FALSE, fLen |-> 0]
    /\ writes = <<>>
    /\ msg = NoMessage

Init ==
    /\ StoreInit
    /\ codec = CodecIdle
    /\ addr = AddrOf(0)
    /\ line = <<>>
    /\ statement = StatementIndet

\* An insert that also writes the page of the new row to the file.
InsertWriteThrough ==
    /\ pc = "running"
    /\ \E env \in EnvsFor(ShortPages({RowPageNum(numRows)} \cap Slots),
                          {RowPageNum(numRows)} \cap Slots) :
         LET row == RowFor(session, numRows)
             r == executeInsertStatement(row, numRows, pages, fLen, file, env)
         IN  /\ pc' = Ended(r.result)
             /\ numRows' = r.numRows
             /\ pages' = r.pages
             /\ result' = r.result
             /\ hi' = Max(hi, r.hi)
             /\ inserted' = IF r.result = "Executed"
                            THEN Append(inserted, [at |-> numRows, row |-> row])
                            ELSE inserted
             /\ file' = IF r.result = "Executed"
                        THEN WriteFile(file, RowPageNum(numRows) * PAGE_SIZE,
                                       r.pages[RowPageNum(numRows)].buf, PAGE_SIZE)
                        ELSE file
    /\ cmd' = "insert"
    /\ out' = <<>>
    /\ UNCHANGED <<fLen, session, disk, fileAtOpen, prev, writes, msg>>
    /\ UNCHANGED pureVars

\* "insert <id> <username> <email>", well formed.
Insert ==
    /\ pc = "running"
    /\ \E env \in EnvsFor(ShortPages({RowPageNum(numRows)} \cap Slots),
                          {RowPageNum(numRows)} \cap Slots) :
         LET row == RowFor(session, numRows)
             r == executeInsertStatement(row, numRows, pages, fLen, file, env)
         IN  /\ pc' = Ended(r.result)
             /\ numRows' = r.numRows
             /\ pages' = r.pages
             /\ result' = r.result
             /\ hi' = Max(hi, r.hi)
             /\ inserted' = IF r.result = "Executed"
                            THEN Append(inserted, [at |-> numRows, row |-> row])
                            ELSE inserted
    /\ cmd' = "insert"
    /\ out' = <<>>
    /\ UNCHANGED <<fLen, file, session, disk, fileAtOpen, prev, writes, msg>>
    /\ UNCHANGED pureVars

\* "select"
Select ==
    /\ pc = "running"
    /\ LET P == {p \in Slots : p <= TABLE_MAX_PAGES /\ p * ROWS_PER_PAGE < numRows} IN
       \E env \in EnvsFor(ShortPages(P), P) :
         LET r == executeSelectStatement(numRows, pages, fLen, file, env)
         IN  /\ pc' = Ended(r.result)
             /\ pages' = r.pages
             /\ result' = r.result
             /\ out' = r.out
             /\ hi' = Max(hi, r.hi)
    /\ cmd' = "select"
    /\ UNCHANGED <<numRows, fLen, file, session, inserted, disk, fileAtOpen,
                   prev, writes, msg>>
    /\ UNCHANGED pureVars

\* ".exit": closeDatabase, then exit(EXIT_SUCCESS).
MetaExit ==
    /\ pc = "running"
    /\ LET P == {p \in Slots : p * ROWS_PER_PAGE < numRows} IN
       \E env \in EnvsFor({}, P) :
         LET r == closeDatabase(numRows, pages, file, env)
         IN  /\ pc' = IF r.status = "ok" THEN "exited" ELSE Ended(r.status)
             /\ pages' = r.pages
             /\ file' = r.file
             /\ result' = r.status
             /\ hi' = Max(hi, r.hi)
             /\ disk' = IF r.status = "ok"
                        THEN disk \cup {inserted[k] : k \in 1..Len(inserted)}
                        ELSE disk
             /\ writes' = r.log
             /\ msg' = r.msg
    /\ cmd' = ".exit"
    /\ out' = <<>>
    /\ UNCHANGED <<numRows, fLen, session, inserted, fileAtOpen, prev>>
    /\ UNCHANGED pureVars

\* The input ends: readInput prints "Error reading input" and exits.
EndOfInput ==
    /\ pc = "running"
    /\ pc' = "aborted"
    /\ cmd' = "eof"
    /\ result' = "fatal"
    /\ out' = <<>>
    /\ UNCHANGED <<numRows, fLen, pages, file, session, inserted, disk,
                   fileAtOpen, hi, prev, writes, msg>>
    /\ UNCHANGED pureVars

\* A line that main turns down: an unrecognized meta command or keyword,
\* or an insert that prepareInsertStatement rejects (which lines these are
\* is the matter of the input loop on its own, below).
Rejected ==
    /\ pc = "running"
    /\ cmd' = "rejected"
    /\ result' = "Rejected"
    /\ out' = <<>>
    /\ UNCHANGED <<pc, numRows, fLen, pages, file, session, inserted, disk,
                   fileAtOpen, hi, prev, writes, msg>>
    /\ UNCHANGED pureVars

\* The program is started again on the same file: openDatabase.
OpenDatabase ==
    /\ pc # "running"
    /\ session < MaxSessions
    /\ pc' = "running"
    /\ fLen' = FileLen(file)
    /\ numRows' = RowsOfFile(FileLen(file))
    /\ pages' = openPager
    /\ session' = session + 1
    /\ cmd' = "open"
    /\ result' = "ok"
    /\ out' = <<>>
    /\ inserted' = <<>>
    /\ fileAtOpen' = file
    /\ hi' = 0 - 1
    /\ prev' = [clean |-> (pc = "exited"), fLen |-> fLen]
    /\ writes' = <<>>
    /\ msg' = NoMessage
    /\ UNCHANGED <<file, disk>>
    /\ UNCHANGED pureVars

Next ==
    \/ Insert
    \/ Select
    \/ MetaExit
    \/ EndOfInput
    \/ Rejected
    \/ OpenDatabase

Spec == Init /\ [][Next]_vars

\* ------------------------------------------------------------- the codec on its own
CodecInit ==
    /\ StoreInit
    /\ addr = AddrOf(0)
    /\ line = <<>>
    /\ statement = StatementIndet
    /\ \E id \in CodecIds, u \in Usernames, e \in Emails, stale \in {0, 170},
          bg \in {0, 255} :
         codec = [step |-> "input",
                  src |-> RowOfInput(id, u, e, stale),
                  bg |-> bg,
                  mem |-> [k \in 1..(Margin + ROW_SIZE + Margin) |-> bg],
                  dst |-> RowOfBytes(bg)]

Serialize ==
    /\ codec.step = "input"
    /\ codec' = [codec EXCEPT !.step = "serialized",
                              !.mem = serializeRowBytes(codec.src, codec.mem, Margin)]
    /\ UNCHANGED <<storeVars, addr, line, statement>>

Deserialize ==
    /\ codec.step = "serialized"
    /\ codec' = [codec EXCEPT !.step = "deserialized",
                              !.dst = deserializeRowBytes(codec.mem, Margin)]
    /\ UNCHANGED <<storeVars, addr, line, statement>>

CodecNext ==
    \/ Serialize
    \/ Deserialize

SpecCodec == CodecInit /\ [][CodecNext]_vars

\* ------------------------------------------------------------- the addresses on their own
\* The highest row index tried.
MaxRowIndex == 120

AddrInit ==
    /\ StoreInit
    /\ codec = CodecIdle
    /\ addr = AddrOf(0)
    /\ line = <<>>
    /\ statement = StatementIndet

NextAddress ==
    /\ addr.i < MaxRowIndex
    /\ addr' = AddrOf(addr.i + 1)
    /\ UNCHANGED <<storeVars, codec, line, statement>>

AddrNext == NextAddress

SpecAddr == AddrInit /\ [][AddrNext]_vars

\* ------------------------------------------------------------- the input loop on its own
\* The lines typed: an insert that is well formed, an insert with each of
\* the faults prepareInsertStatement looks for and with the ids at and
\* below the least int, and lines that are no statement.
InsertLine(id, username, email) ==
    KwInsert \o <<32>> \o id \o <<32>> \o username \o <<32>> \o email
Lines ==
    { InsertLine(<<49>>, <<117>>, <<101>>),                       \* insert 1 u e
      KwInsert,                                                   \* insert
      KwInsert \o <<32, 49, 32, 117>>,                            \* insert 1 u
      InsertLine(<<45, 49>>, <<117>>, <<101>>),                   \* insert -1 u e
      InsertLine(<<49>>, FullStr(COLUMN_USERNAME_SIZE + 1), <<101>>),
      InsertLine(<<49>>, <<117>>, FullStr(COLUMN_EMAIL_SIZE + 1)),
      InsertLine(<<45, 50, 49, 52, 55, 52, 56, 51, 54, 52, 56>>,  \* -2147483648
                 <<117>>, <<101>>),
      InsertLine(<<45, 50, 49, 52, 55, 52, 56, 51, 54, 52, 57>>,  \* -2147483649
                 <<117>>, <<101>>),
      KwSelect,                                                   \* select
      KwSelect \o <<32>>,                                         \* "select "
      <<102, 111, 111>>,                                          \* foo
      <<46, 102, 111, 111>>,                                      \* .foo
      <<>> }

\* A line main turns down: it prints why and reads the next.
LineRejected ==
    /\ pc = "running"
    /\ \E buffer \in Lines \ {DotExit}, wrapped \in AtoiWrapped :
         LET d == Dispatch(buffer, statement, wrapped) IN
         /\ d.result # "PREPARE_SUCCESS"
         /\ line' = buffer
         /\ statement' = d.statement
         /\ result' = d.result
    /\ cmd' = "rejected"
    /\ out' = <<>>
    /\ UNCHANGED <<pc, numRows, fLen, pages, file, session, inserted, disk,
                   fileAtOpen, hi, prev, writes, msg>>
    /\ UNCHANGED <<codec, addr>>

\* A line prepareStatement takes as an insert: executeInsertStatement.
LineInsert ==
    /\ pc = "running"
    /\ \E buffer \in Lines \ {DotExit}, wrapped \in AtoiWrapped :
         LET d == Dispatch(buffer, statement, wrapped) IN
         /\ d.result = "PREPARE_SUCCESS"
         /\ d.statement.type = "STATEMENT_INSERT"
         /\ line' = buffer
         /\ statement' = d.statement
         /\ \E env \in EnvsFor(ShortPages({RowPageNum(numRows)} \cap Slots),
                               {RowPageNum(numRows)} \cap Slots) :
              LET row == d.statement.rowToInsert
                  r == executeInsertStatement(row, numRows, pages, fLen, file, env)
              IN  /\ pc' = Ended(r.result)
                  /\ numRows' = r.numRows
                  /\ pages' = r.pages
                  /\ result' = r.result
                  /\ hi' = Max(hi, r.hi)
                  /\ inserted' = IF r.result = "Executed"
                                 THEN Append(inserted, [at |-> numRows, row |-> row])
                                 ELSE inserted
    /\ cmd' = "insert"
    /\ out' = <<>>
    /\ UNCHANGED <<fLen, file, session, disk, fileAtOpen, prev, writes, msg>>
    /\ UNCHANGED <<codec, addr>>

\* A line prepareStatement takes as a select: executeSelectStatement.
LineSelect ==
    /\ pc = "running"
    /\ \E buffer \in Lines \ {DotExit}, wrapped \in AtoiWrapped :
         LET d == Dispatch(buffer, statement, wrapped) IN
         /\ d.result = "PREPARE_SUCCESS"
         /\ d.statement.type = "STATEMENT_SELECT"
         /\ line' = buffer
         /\ statement' = d.statement
    /\ LET P == {p \in Slots : p <= TABLE_MAX_PAGES /\ p * ROWS_PER_PAGE < numRows} IN
       \E env \in EnvsFor(ShortPages(P), P) :
         LET r == executeSelectStatement(numRows, pages, fLen, file, env)
         IN  /\ pc' = Ended(r.result)
             /\ pages' = r.pages
             /\ result' = r.result
             /\ out' = r.out
             /\ hi' = Max(hi, r.hi)
    /\ cmd' = "select"
    /\ UNCHANGED <<numRows, fLen, file, session, inserted, disk, fileAtOpen,
                   prev, writes, msg>>
    /\ UNCHANGED <<codec, addr>>

InputNext ==
    \/ LineRejected
    \/ LineInsert
    \/ LineSelect

SpecInput == Init /\ [][InputNext]_vars

\* ------------------------------------------------------------- adequacy
\* Every length the file takes is a whole number of units, and no
\* operation indexes the page table beyond the words the model holds.
FileUnitAligned ==
    /\ Len(file) % UnitsPerPage < UnitsPerPage - 1 \/ Len(file) % UnitsPerPage = 0
    /\ fLen = BytesOf(Len(fileAtOpen))
SlotsModelled == numRows \div ROWS_PER_PAGE <= LastSlot

\* ------------------------------------------------------------- claims
\* The rows on disk, by index: what a session that finds a file written
\* from empty by one .exit should see.
DiskSeq == [i \in 1..Cardinality(disk) |-> (CHOOSE e \in disk : e.at = i - 1).row]
\* The session before this one started from an empty file and ended by .exit.
AfterCleanFirstUse == session > 1 /\ prev.clean /\ prev.fLen = 0
\* The ROW_SIZE bytes of file f from byte offset off are one row slot, and
\* it decodes to row.  (A range that is no slot straddles padding or two
\* slots.)
HoldsRow(f, off, row) ==
    \E k \in 1..Len(f) :
        /\ k % UnitsPerPage # 0
        /\ BytesOf(k - 1) = off
        /\ deserializeRow(f[k]) = row

\* C1: after N inserts from an empty file, .exit and a restart on the same
\* file, the row count is N and select prints exactly the N rows inserted,
\* in order.
PersistenceRoundTrip ==
    (AfterCleanFirstUse /\ inserted = <<>> /\ cmd \in {"open", "select"}) =>
        /\ numRows = Cardinality(disk)
        /\ cmd = "select" => (result = "Executed" /\ out = DiskSeq)

\* C2: in a session over an empty file, select prints exactly the rows
\* inserted so far, in insertion order.
OrderPreservation ==
    (fLen = 0 /\ cmd = "select") =>
        /\ result = "Executed"
        /\ Len(out) = Len(inserted)
        /\ numRows = Len(inserted)
        /\ \A i \in 1..Len(inserted) : out[i] = inserted[i].row /\ inserted[i].at = i - 1
OrderPreservationWitness ==
    /\ fLen = 0
    /\ cmd = "select"
    /\ Len(out) = TABLE_MAX_ROWS
    /\ Len(inserted) = TABLE_MAX_ROWS

\* C3: in a session over an empty file every insert below max_rows rows
\* succeeds, and every insert at max_rows rows or more reports "table full"
\* and changes neither the row count nor the page table nor any page.
Capacity ==
    [][(fLen = 0 /\ pc = "running" /\ cmd' = "insert") =>
          IF numRows < ROWS_PER_PAGE * TABLE_MAX_PAGES
          THEN result' = "Executed" /\ numRows' = numRows + 1
          ELSE /\ result' = "TableFull"
               /\ numRows' = numRows
               /\ pages' = pages
               /\ file' = file
               /\ pc' = "running"]_vars
CapacityWitness ==
    /\ fLen = 0
    /\ cmd = "insert"
    /\ result = "TableFull"
    /\ numRows = ROWS_PER_PAGE * TABLE_MAX_PAGES
    /\ Len(inserted) = ROWS_PER_PAGE * TABLE_MAX_PAGES

PageBound ==
    cmd \in {"insert", "select"} => hi < TABLE_MAX_PAGES

\* C7: the row count never exceeds max_rows, also right after openDatabase.
RowCountBound == numRows <= ROWS_PER_PAGE * TABLE_MAX_PAGES

\* C8: unless the last command was .exit the file is as the session found
\* it, whatever was inserted and however the process ended.
NoWriteBackBeforeClose == cmd # ".exit" => file = fileAtOpen
NoWriteBackBeforeCloseWitness ==
    /\ pc = "aborted"
    /\ cmd = "eof"
    /\ Len(inserted) > ROWS_PER_PAGE
    /\ fLen > 0
    /\ file = fileAtOpen

\* C9: for a row whose username has at most 32 bytes and whose email has at
\* most 255, deserializeRow of serializeRow gives the row back, and
\* serializeRow writes the 293 bytes at the destination, the id at offset
\* 0, the username at 4 and the email at 37, and no byte outside them.
CodecRoundTrip ==
    /\ codec.step \in {"serialized", "deserialized"} =>
        /\ Len(codec.mem) = Margin + 293 + Margin
        /\ \A k \in 1..Len(codec.mem) :
              (k <= Margin \/ k > Margin + 293) => codec.mem[k] = codec.bg
        /\ \A j \in 1..4 : codec.mem[Margin + 0 + j] = codec.src.id[j]
        /\ \A j \in 1..33 : codec.mem[Margin + 4 + j] = codec.src.username[j]
        /\ \A j \in 1..256 : codec.mem[Margin + 37 + j] = codec.src.email[j]
    /\ codec.step = "deserialized" => codec.dst = codec.src
CodecRoundTripWitness ==
    /\ codec.step = "deserialized"
    /\ codec.dst = codec.src
    /\ codec.src.username[32] # 0
    /\ codec.src.email[255] # 0
    /\ codec.src.id[4] # 0
    /\ codec.bg # 0

\* C10: row i is at page i / rows_per_page, byte (i % rows_per_page) *
\* row_stride; the index is recovered from the address, the row ends
\* inside the page, and it overlaps no row of a lower index.
Addressing ==
    /\ addr.page = addr.i \div ROWS_PER_PAGE
    /\ addr.offset = (addr.i % ROWS_PER_PAGE) * ROW_SIZE
    /\ addr.page * ROWS_PER_PAGE + addr.offset \div ROW_SIZE = addr.i
    /\ addr.offset + ROW_SIZE <= PAGE_SIZE
    /\ \A j \in 0..(addr.i - 1) :
          \/ AddrOf(j).page # addr.page
          \/ AddrOf(j).offset + ROW_SIZE <= addr.offset
          \/ addr.offset + ROW_SIZE <= AddrOf(j).offset
AddressingWitness ==
    /\ addr.i > ROWS_PER_PAGE * TABLE_MAX_PAGES
    /\ addr.page > 0
    /\ addr.offset = (ROWS_PER_PAGE - 1) * ROW_SIZE

\* Page p is resident: getPage has put a page buffer in its slot.
Resident(pgs, p) == pgs[p].st = "page"

\* C11: a .exit that runs to its end makes one write() of PAGE_SIZE bytes at
\* offset p * PAGE_SIZE for every resident page p below numRows /
\* ROWS_PER_PAGE, one write() of (numRows % ROWS_PER_PAGE) * ROW_SIZE bytes
\* at its offset for the page numRows / ROWS_PER_PAGE if that is resident
\* and partly filled, no other write(), and leaves no page resident.
CloseFlushRule ==
    [][(pc = "running" /\ cmd' = ".exit" /\ result' = "ok") =>
         LET numFullPages == numRows \div ROWS_PER_PAGE
             numAdditionalRows == numRows % ROWS_PER_PAGE
             full == {[offset |-> p * PAGE_SIZE, size |-> PAGE_SIZE] :
                        p \in {q \in Slots : q < numFullPages /\ Resident(pages, q)}}
             part == IF numAdditionalRows > 0 /\ Resident(pages, numFullPages)
                     THEN {[offset |-> numFullPages * PAGE_SIZE,
                            size |-> numAdditionalRows * ROW_SIZE]}
                     ELSE {}
         IN  /\ {writes'[k] : k \in 1..Len(writes')} = full \cup part
             /\ Len(writes') = Cardinality(full \cup part)
             /\ \A p \in Slots : ~Resident(pages', p)]_vars

\* What read(fd, page, PAGE_SIZE) returns at the offset of page pageNum.
BytesReadAt(f, pageNum) == Min(PAGE_SIZE, Max(0, FileLen(f) - pageNum * PAGE_SIZE))

\* C12: when an insert or a select makes a page resident, every byte of its
\* buffer that the read from the file did not fill (and that the insert
\* itself did not write) is zero: the whole page if it lies beyond the end
\* of the file, the tail if the file ends inside it.
ZeroInitialisedPages ==
    [][\A p \in Slots :
         (/\ pc = "running"
          /\ cmd' \in {"insert", "select"}
          /\ ~Resident(pages, p)
          /\ Resident(pages', p)) =>
             \A u \in 1..UnitsPerPage :
                 (/\ u > UnitsIn(BytesReadAt(file, p))
                  /\ ~(/\ cmd' = "insert"
                       /\ p = numRows \div ROWS_PER_PAGE
                       /\ u = (numRows % ROWS_PER_PAGE) + 1)) =>
                     pages'[p].buf[u] = Malloc("zero")[u]]_vars

\* The pages an insert or a select asks getPage for.
Asked ==
    IF cmd' = "insert"
    THEN (IF numRows >= ROWS_PER_PAGE * TABLE_MAX_PAGES THEN {}
          ELSE {numRows \div ROWS_PER_PAGE})
    ELSE {p \in Slots : p * ROWS_PER_PAGE < numRows}

\* C13: an insert or a select leaves every resident page resident, with the
\* buffer it had but for the row slot the insert writes (so no later
\* getPage reads the file into it or allocates it anew), and changes the
\* slot of no page other than those it asks getPage for.
NoEviction ==
    [][(pc = "running" /\ cmd' \in {"insert", "select"}) =>
         \A p \in Slots :
             /\ Resident(pages, p) =>
                    /\ Resident(pages', p)
                    /\ \A u \in 1..UnitsPerPage :
                          \/ pages'[p].buf[u] = pages[p].buf[u]
                          \/ /\ cmd' = "insert"
                             /\ result' = "Executed"
                             /\ p = numRows \div ROWS_PER_PAGE
                             /\ u = (numRows % ROWS_PER_PAGE) + 1
             /\ p \notin Asked => pages'[p] = pages[p]]_vars
NoEvictionWitness ==
    /\ cmd = "select"
    /\ result = "Executed"
    /\ fLen > 0
    /\ Len(inserted) >= 2
    /\ Len(out) = numRows
    /\ \E k \in 1..Len(out) : out[k] = inserted[1].row
    /\ Resident(pages, 0)
    /\ Resident(pages, 1)

\* C14: in a session numRows never decreases; an insert that is executed
\* adds exactly 1 to it, puts the row in the slot of row index numRows (the
\* value before) and changes no other byte of any page nor the file: the
\* earlier rows are as they were in the buffer, or as the file has them
\* when this insert loaded their page; select, an insert that fails, a
\* rejected line, the end of input and .exit leave numRows as it is.
RowCountByInsertOnly ==
    [][(pc = "running" /\ cmd' # "open") =>
         LET page == numRows \div ROWS_PER_PAGE
             unit == (numRows % ROWS_PER_PAGE) + 1
         IN  /\ numRows' >= numRows
             /\ (cmd' = "insert" /\ result' = "Executed") =>
                    /\ numRows' = numRows + 1
                    /\ file' = file
                    /\ deserializeRow(pages'[page].buf[unit]) = inserted'[Len(inserted')].row
                    /\ \A p \in Slots \ {page} : pages'[p] = pages[p]
                    /\ \A u \in (1..UnitsPerPage) \ {unit} :
                          IF Resident(pages, page)
                          THEN pages'[page].buf[u] = pages[page].buf[u]
                          ELSE u <= UnitsIn(BytesReadAt(file, page)) =>
                                 pages'[page].buf[u] = file[page * UnitsPerPage + u]
             /\ ~(cmd' = "insert" /\ result' = "Executed") => numRows' = numRows]_vars
RowCountByInsertOnlyWitness ==
    /\ cmd = "insert"
    /\ result = "Executed"
    /\ fLen > 0
    /\ Len(inserted) >= 2
    /\ numRows = RowsOfFile(fLen) + Len(inserted)
    /\ numRows % ROWS_PER_PAGE # 1

ReopenStability ==
    (/\ session > 1
     /\ prev.clean
     /\ inserted = <<>>
     /\ cmd = ".exit"
     /\ result = "ok") => file = fileAtOpen

\* The lines that are to be turned down, told by their text: an insert with
\* a field missing, with a negative id or with a string too long, and a
\* line that is no statement or no meta command the program knows.
IsInsertStatement(buffer) ==
    LET tokens == strtok(buffer) IN
    ~IsMeta(buffer) /\ tokens # <<>> /\ tokens[1] = KwInsert
MissingField(buffer) ==
    IsInsertStatement(buffer) /\ Len(strtok(buffer)) < 4
NegativeId(buffer) ==
    LET tokens == strtok(buffer) IN
    /\ IsInsertStatement(buffer)
    /\ Len(tokens) >= 4
    /\ Len(tokens[2]) >= 2
    /\ tokens[2][1] = 45
    /\ \A k \in 2..Len(tokens[2]) : isdigit(tokens[2][k])
    /\ \E k \in 2..Len(tokens[2]) : tokens[2][k] # 48
StringTooLong(buffer) ==
    LET tokens == strtok(buffer) IN
    /\ IsInsertStatement(buffer)
    /\ Len(tokens) >= 4
    /\ Len(tokens[3]) > 32 \/ Len(tokens[4]) > 255
Unrecognized(buffer) ==
    LET tokens == strtok(buffer) IN
    IF IsMeta(buffer) THEN buffer # DotExit
    ELSE tokens = <<>> \/ tokens[1] \notin {KwInsert, KwSelect}
ToBeRejected(buffer) ==
    \/ MissingField(buffer)
    \/ NegativeId(buffer)
    \/ StringTooLong(buffer)
    \/ Unrecognized(buffer)

\* C17: a line that is an insert with a field missing, with a negative id,
\* with a username of more than 32 characters or with an email of more
\* than 255, or that is no statement or no meta command the program knows,
\* is turned down: the row count, the page table, the pages and the file
\* stay as they were, and nothing is copied into the statement's row.
RejectedNoEffect ==
    [][(pc = "running" /\ cmd' \in {"rejected", "insert", "select"}
        /\ ToBeRejected(line')) =>
           /\ cmd' = "rejected"
           /\ numRows' = numRows
           /\ pages' = pages
           /\ file' = file
           /\ statement'.rowToInsert = statement.rowToInsert]_vars

====
